---------------------------- MODULE Spec2Model ----------------------------
(***************************************************************************)
(* Model of the GitHub issue harvester of                                  *)
(* src/llm-app/templates/multimodal_rag/data/source/issueScraper.py:       *)
(* fetch_json, fetch_closed_issues, fetch_closing_sha, fetch_commit_diff,  *)
(* fetch_comments, process_issue and scrapIssues, running as asyncio       *)
(* coroutines over one aiohttp connection pool.                            *)
(*                                                                         *)
(* One action is one step of a coroutine between two suspension points     *)
(* (asyncio runs a coroutine without interleaving until it awaits).        *)
(* The remote host is the environment: what it answers to each URL is      *)
(* fixed in the initial state, except for the rate-limit answers (403 with *)
(* X-RateLimit-Reset), which it may give at any request while its budget   *)
(* rateLeft lasts.  Time passes only while a rate-limited call sleeps.     *)
(***************************************************************************)
EXTENDS Integers, Sequences, FiniteSets, TLC

(***************************************************************************)
(* Bounds of the model.                                                    *)
(***************************************************************************)
\* pages the upstream listing has (walker specification)
MaxPages == 3
\* entries of the single short page the harvest specification lists
MaxIssues == 2
\* rate-limit answers the remote host gives during one harvest
MaxRateLimits == 1
\* rate-limit answers the remote host gives to a walker on its own
MaxWalkerRateLimits == 2
\* the ceiling of the connection pool, TCPConnector(limit=...) of line 140.
\* The source sets 30; the model runs the pool with a ceiling that the
\* requests of MaxIssues concurrent enrichments reach.
limit == 2
\* rate-limit answers the remote host gives to one call of fetch_json
MaxFetchRateLimits == 3

(***************************************************************************)
(* Program constants.                                                      *)
(***************************************************************************)
\* per_page=100 and the "No more pages" test, lines 44 and 53
PerPage == 100
\* the target count, lines 43 and 58
Target == 150

\* Python's None
None == "None"

Min(a, b) == IF a < b THEN a ELSE b
Max(a, b) == IF a > b THEN a ELSE b

(***************************************************************************)
(* Time, in whole seconds.  The remote host and X-RateLimit-Reset use Unix *)
(* time.  The event loop's clock, loop.time(), is a monotonic clock whose  *)
(* reference point is not specified: it reads Unix time minus loopStart,   *)
(* the Unix time at which it read 0.                                       *)
(***************************************************************************)
\* the Unix time at which the harvest starts
Epoch == 1000
\* loopStart when the monotonic clock counts from the start of the machine,
\* 40 seconds before the harvest, and when it happens to read Unix time
LoopStarts == {Epoch - 40, 0}
\* how far ahead of the moment of its answer the remote host sets
\* X-RateLimit-Reset: 5 seconds (Scenario D), or a moment 3 seconds ago
ResetAheads == {5, -3}

(***************************************************************************)
(* JSON values.  A list is [t |-> "list", v |-> <<...>>]; an object is     *)
(* [t |-> "obj", hasFiles |-> ..., files |-> ..., message |-> ...] (the    *)
(* only key of an object the harvester reads from a response is "files";   *)
(* "message" is the key of the remote host's error bodies).  EmptyObj is   *)
(* {}.                                                                     *)
(***************************************************************************)
JList(s) == [t |-> "list", v |-> s]
JObj(fs) == [t |-> "obj", hasFiles |-> TRUE, files |-> fs, message |-> FALSE]
EmptyObj == [t |-> "obj", hasFiles |-> FALSE, files |-> <<>>, message |-> FALSE]
\* the body of an error answer, {"message": "Not Found"}
ErrorObj == [t |-> "obj", hasFiles |-> FALSE, files |-> <<>>, message |-> TRUE]
IsList(j) == j.t = "list"

(***************************************************************************)
(* The upstream listing.  A page is described by its shape: whether the    *)
(* request succeeds, how many raw entries it has, and which of them carry  *)
(* the pull_request marker.  Entry numbers run through the listing.        *)
(***************************************************************************)
PageLens == {30, PerPage}
Patterns == {"issues", "pulls", "mixed"}

IsPull(pat, j) ==
    CASE pat = "issues" -> FALSE
      [] pat = "pulls"  -> TRUE
      [] OTHER          -> j % 2 = 0

\* a label of an issue, with its "name" key or without it
Label(name) == [hasName |-> TRUE, name |-> name]
LabelNoName == [hasName |-> FALSE, name |-> None]
\* the "labels" key of an issue: absent, or a list of labels
NoLabels == [has |-> FALSE, v |-> <<>>]
LabelList(ls) == [has |-> TRUE, v |-> ls]
\* the "assignee" key of an issue: absent, null, or a user object
NoAssignee == [kind |-> "missing", login |-> None]
NullAssignee == [kind |-> "null", login |-> None]
AssignedTo(login) == [kind |-> "obj", login |-> login]

\* the raw entry of the listing: the keys of a GitHub issue the code reads,
\* "user", "labels" and "assignee" being those of the profile p
Entry(n, pull, p) ==
    [number |-> n, pull_request |-> pull, user |-> p.user,
     labels |-> p.labels, assignee |-> p.assignee]

(***************************************************************************)
(* What the remote host holds for one issue: its events feed, its          *)
(* comments, whether the issue's "user" is an object or null, its labels   *)
(* and its assignee.  An answer has an HTTP status, or status 0 when the   *)
(* request fails in transport; a 403 here carries no X-RateLimit-Reset.    *)
(***************************************************************************)
Ev(kind, cid) == [event |-> kind, commit_id |-> cid]
Answer(st, b) == [status |-> st, body |-> b]

\* the events feed of Scenario C: closed by abc, reopened, closed by def
FeedReclosed ==
    <<Ev("labeled", None), Ev("closed", "abc"),
      Ev("reopened", None), Ev("closed", "def")>>
\* closed by hand (no commit id), then a reference with an empty commit id
FeedNoCommit == <<Ev("closed", None), Ev("referenced", "abc"), Ev("closed", "")>>
\* closed by hand first, then closed by commit def
FeedLateCommit == <<Ev("closed", None), Ev("closed", "def")>>

CommentList == <<"c1", "c2">>

Profiles ==
    { \* every request about the issue fails: a 403 without the rate-limit
      \* header, and a connection that breaks
      [events |-> Answer(403, ErrorObj), comments |-> Answer(0, EmptyObj),
       user |-> "obj", labels |-> NoLabels, assignee |-> NoAssignee],
      [events |-> Answer(200, JList(FeedNoCommit)),
       comments |-> Answer(200, JList(CommentList)), user |-> "obj",
       labels |-> LabelList(<<Label("bug")>>), assignee |-> AssignedTo("ann")],
      \* an issue with a label that has no name, and "assignee": null
      [events |-> Answer(200, JList(FeedReclosed)),
       comments |-> Answer(200, JList(<<>>)), user |-> "obj",
       labels |-> LabelList(<<Label("bug"), LabelNoName, Label("ui")>>),
       assignee |-> NullAssignee],
      [events |-> Answer(200, JList(FeedLateCommit)),
       comments |-> Answer(200, JList(CommentList)), user |-> "obj",
       labels |-> LabelList(<<>>), assignee |-> AssignedTo("bob")],
      \* an issue whose author's account is gone: "user": null
      [events |-> Answer(200, JList(FeedReclosed)),
       comments |-> Answer(200, JList(CommentList)), user |-> "null",
       labels |-> LabelList(<<Label("bug")>>), assignee |-> NullAssignee] }

DefaultProfile ==
    [events |-> Answer(200, JList(<<>>)), comments |-> Answer(200, JList(<<>>)),
     user |-> "obj", labels |-> LabelList(<<>>), assignee |-> NoAssignee]

\* the commits the feeds name: abc changes two files, def is gone (404)
File(name, patch) == [filename |-> name, patch |-> patch]
CommitAnswer(sha) ==
    IF sha = "abc"
    THEN Answer(200, JObj(<<File("a.py", "@@1"), File("b.bin", "")>>))
    ELSE Answer(404, ErrorObj)

Shas == {"abc", "def"}

(***************************************************************************)
(* The endpoint, scrapLink: a string, as the sequence of its pieces.  The  *)
(* pieces "repos/" and "/issues" are the separators the code splits at.    *)
(***************************************************************************)
Links ==
    { <<"https://api.github.com/", "repos/", "octo/app", "/issues">>,
      \* an endpoint without the "repos/" segment
      <<"https://api.github.com/", "octo/app", "/issues">> }

\* the first position of piece d in s, 0 when there is none
Find(s, d) ==
    IF \E k \in 1..Len(s) : s[k] = d
    THEN CHOOSE k \in 1..Len(s) : s[k] = d /\ \A j \in 1..(k - 1) : s[j] # d
    ELSE 0

RECURSIVE Split(_, _)
\* str.split(d): the parts of s between the occurrences of d
Split(s, d) ==
    IF Find(s, d) = 0 THEN <<s>>
    ELSE <<SubSeq(s, 1, Find(s, d) - 1)>>
             \o Split(SubSeq(s, Find(s, d) + 1, Len(s)), d)

\* lines 102 and 158: split("repos/")[1] exists (no IndexError)
HasRepo(link) == Len(Split(link, "repos/")) >= 2

\* lines 102 and 158: scrapLink.split("repos/")[1].split("/issues")[0]
Repo(link) == Split(Split(link, "repos/")[2], "/issues")[1]

VARIABLES
    scrapLink,   \* scrapIssues: the endpoint it is called with
    pages,       \* upstream: the shapes of the listing's pages, in order
    feeds,       \* upstream: per issue number, the issue's profile
    resetAhead,  \* upstream: X-RateLimit-Reset, relative to the answer's time
    loopStart,   \* the Unix time at which loop.time() read 0
    now,         \* Unix time
    rateLeft,    \* rate-limit answers the remote host may still give
    page,        \* fetch_closed_issues: page
    all_issues,  \* fetch_closed_issues: all_issues
    issues,      \* scrapIssues: issues (the walker's return value)
    ch,          \* per fetch_json call chain: its state, URL, connections held
    sent,        \* per call chain, the URLs it has requested, in order
    calls,       \* per call chain, the calls of fetch_json that have returned
    task,        \* per enrichment task (process_issue): its progress
    hpc,         \* scrapIssues: where it stands
    results,     \* scrapIssues: what it returned
    finished     \* the enrichment tasks that have returned, in that order

vars == <<scrapLink, pages, feeds, resetAhead, loopStart, now, rateLeft,
          page, all_issues, issues, ch, sent, calls, task, hpc, results,
          finished>>

\* what a harvest is given: the endpoint, the remote host's data, the clock
upstreamVars == <<scrapLink, pages, feeds, resetAhead, loopStart>>

\* the body the remote host serves for page k of the listing
PageBody(k) ==
    IF k > Len(pages) THEN <<>>
    ELSE LET base == (k - 1) * PerPage
         IN  [j \in 1..pages[k].len |->
                Entry(base + j, IsPull(pages[k].pat, j),
                      IF (base + j) \in DOMAIN feeds
                      THEN feeds[base + j] ELSE DefaultProfile)]

(***************************************************************************)
(* URLs, as <<kind, number, sha>>: the page N of the listing, the events   *)
(* and the comments of issue N, the commit sha.                            *)
(***************************************************************************)
PageUrl(k) == <<"page", k, "">>
EventsUrl(n) == <<"events", n, "">>
CommentsUrl(n) == <<"comments", n, "">>
CommitUrl(sha) == <<"commit", 0, sha>>

\* what the remote host answers to a request that it does not rate-limit
Upstream(url) ==
    CASE url[1] = "page" ->
            IF url[2] <= Len(pages) /\ ~pages[url[2]].ok
            THEN Answer(500, ErrorObj)
            ELSE Answer(200, JList(PageBody(url[2])))
      [] url[1] = "events" -> feeds[url[2]].events
      [] url[1] = "comments" -> feeds[url[2]].comments
      [] OTHER -> CommitAnswer(url[3])

(***************************************************************************)
(* fetch_json.  A call chain is one call of fetch_json with the recursive  *)
(* calls it makes on rate limits; a coroutine has at most one at a time.   *)
(* Chain <<0, "page">> is the walker's; <<i, "main">> is process_issue i   *)
(* (events, then commit); <<i, "comments">> is its comments_task.          *)
(*   st    "idle"      no call in progress                                 *)
(*         "wait"      in session.get, no connection of the pool yet       *)
(*         "inflight"  request sent, response awaited                      *)
(*         "sleep"     in asyncio.sleep after a 403 with X-RateLimit-Reset *)
(*   held  connections of the pool the chain holds: the one in flight and  *)
(*         those of its suspended attempts whose response is still open    *)
(*   tries, limits  the requests the call has issued, and the rate-limit   *)
(*         answers it has received                                         *)
(*   reset, wake    the X-RateLimit-Reset of the last of them, and the     *)
(*         Unix time at which the sleep that followed it ends              *)
(***************************************************************************)
Chains == {<<0, "page">>} \cup ((1..MaxIssues) \X {"main", "comments"})
WalkerChain == <<0, "page">>

Idle ==
    [st |-> "idle", url |-> <<"", 0, "">>, held |-> 0, tries |-> 0,
     limits |-> 0, reset |-> 0, wake |-> 0]

RECURSIVE SumHeld(_, _)
SumHeld(h, cs) ==
    IF cs = {} THEN 0
    ELSE LET c == CHOOSE x \in cs : TRUE
         IN  h[c].held + SumHeld(h, cs \ {c})

\* connections of the pool in use
InUse == SumHeld(ch, Chains)

\* a connector without a ceiling (limit=0)
CanAcquireUnbounded(h) == TRUE

\* the connector hands out a connection only below its ceiling
CanAcquire(h) == SumHeld(h, Chains) < limit

\* session.get does not wait: the pool has a connection left and nobody is
\* queued for one
Immediate(h) == CanAcquire(h) /\ \A c \in Chains : h[c].st # "wait"

\* line 21, session.get(url), called by chain c when the chains are h and
\* the requests issued are s: the request is sent at once on a connection
\* of the pool, or the call waits for one
Started(h, s, c, url) ==
    IF Immediate(h)
    THEN [ch |-> [h EXCEPT ![c].st = "inflight", ![c].url = url,
                           ![c].held = @ + 1, ![c].tries = @ + 1],
          sent |-> [s EXCEPT ![c] = Append(@, url)]]
    ELSE [ch |-> [h EXCEPT ![c].st = "wait", ![c].url = url],
          sent |-> s]

\* line 21, session.get(url): a waiting call gets a connection that has
\* become free, and the request is sent
Request(c) ==
    /\ hpc \in {"paging", "gather"}
    /\ ch[c].st = "wait"
    /\ CanAcquire(ch)
    /\ ch' = [ch EXCEPT ![c].st = "inflight", ![c].held = @ + 1,
                         ![c].tries = @ + 1]
    /\ sent' = [sent EXCEPT ![c] = Append(@, ch[c].url)]
    /\ UNCHANGED <<upstreamVars, now, rateLeft, page, all_issues, issues,
                   calls, task, hpc, results, finished>>

\* line 26: int(asyncio.get_event_loop().time()), the loop's clock
LoopTime == now - loopStart

\* a backoff of the minimum, whatever the reset time
WaitMinimum(reset, lnow) == 2

\* lines 27-28: the seconds slept, max(int(reset) - now, 2), now being the
\* reading lnow of the loop's clock
Wait(reset, lnow) == Max(reset - lnow, 2)

\* lines 23-28: the answer is 403 with X-RateLimit-Reset; sleep
RateLimited(c) ==
    /\ hpc \in {"paging", "gather"}
    /\ ch[c].st = "inflight"
    /\ rateLeft > 0
    /\ rateLeft' = rateLeft - 1
    /\ LET reset == now + resetAhead
       IN  ch' = [ch EXCEPT ![c].st = "sleep", ![c].limits = @ + 1,
                            ![c].reset = reset,
                            ![c].wake = now + Wait(reset, LoopTime)]
    /\ UNCHANGED <<upstreamVars, now, page, all_issues, issues, sent, calls,
                   task, hpc, results, finished>>

\* the sleeps that have not ended yet
Sleeping == {c \in Chains : ch[c].st = "sleep" /\ ch[c].wake > now}

\* line 28, asyncio.sleep: time passes, up to the moment the next of the
\* sleeps ends
Tick ==
    /\ hpc \in {"paging", "gather"}
    /\ Sleeping # {}
    /\ now' = ch[CHOOSE c \in Sleeping :
                    \A d \in Sleeping : ch[c].wake <= ch[d].wake].wake
    /\ UNCHANGED <<upstreamVars, rateLeft, page, all_issues, issues, ch,
                   sent, calls, task, hpc, results, finished>>

\* line 29: the sleep is over; fetch_json calls itself with the same URL
Retry(c) ==
    /\ hpc \in {"paging", "gather"}
    /\ ch[c].st = "sleep"
    /\ now >= ch[c].wake
    /\ LET net == Started(ch, sent, c, ch[c].url)
       IN  ch' = net.ch /\ sent' = net.sent
    /\ UNCHANGED <<upstreamVars, now, rateLeft, page, all_issues, issues,
                   calls, task, hpc, results, finished>>

\* responses whose connection goes back to the pool only when the "async
\* with" block is left: none is given back before
OpenResponsesKept(h, c) == 0

\* lines 21-29: the connections chain c holds for its suspended attempts,
\* the rate-limited responses inside whose "async with" block it sleeps or
\* retries
OpenResponses(h, c) == h[c].held - (IF h[c].st = "inflight" THEN 1 ELSE 0)

\* line 21, the response of a suspended attempt (a 403 whose "async with"
\* block is still open): aiohttp gives the connection back to the pool as
\* soon as the body has been received in full, which may be at any time
ResponseEof(c) ==
    /\ hpc \in {"paging", "gather"}
    /\ OpenResponses(ch, c) > 0
    /\ ch' = [ch EXCEPT ![c].held = @ - 1]
    /\ UNCHANGED <<upstreamVars, now, rateLeft, page, all_issues, issues,
                   sent, calls, task, hpc, results, finished>>

\* a fetch_json without raise_for_status: the body, whatever the status
FetchJsonUnchecked(ans) == ans.body

\* lines 30-34: what fetch_json returns for an answer that is no rate limit
FetchJson(ans) == IF ans.status = 200 THEN ans.body ELSE EmptyObj

\* lines 29-34: the call of chain c returns data; the call is recorded with
\* the requests it took
Return(cl, h, c, data) ==
    [cl EXCEPT ![c] = Append(@, [url |-> h[c].url, data |-> data,
                                 tries |-> h[c].tries,
                                 limits |-> h[c].limits])]

(***************************************************************************)
(* fetch_closed_issues                                                     *)
(***************************************************************************)
\* a walker without the filter of line 50
FilteredNothing(got) == got

\* line 50: the entries without the pull_request key
Filtered(got) == SelectSeq(got, LAMBDA i : ~i.pull_request)

\* line 47: the page is no list, or an empty one
NoData(got) == ~IsList(got) \/ Len(got.v) = 0

\* a walker without the short-page test of line 53
LastPageNever(got) == FALSE

\* line 53: fewer raw entries than asked for, "No more pages"
LastPage(got) == Len(got.v) < PerPage

\* a loop that goes on until the listing ends ("while True")
WantedAlways(acc) == TRUE

\* line 43: the loop goes on while fewer than 150 issues are gathered
Wanted(acc) == Len(acc) < Target

\* line 58: all_issues[:150]
Truncated(s) == SubSeq(s, 1, Min(Len(s), Target))

\* a walker that takes every other page
NextPageSkips(p) == p + 2

\* line 56: page += 1
NextPage(p) == p + 1

\* a loop with the condition of its while only, without the two breaks
ContinueWhileWanted(got, more) == Wanted(more)

\* lines 43-56: the loop goes on to the next page when the page fetched has
\* data (no break at line 48), is full (no break at line 54), and the
\* issues accumulated with it are still fewer than the target (line 43)
Continue(got, more) == ~NoData(got) /\ ~LastPage(got) /\ Wanted(more)

\* lines 45-58: the answer to the page request arrives
PageResponse ==
    /\ hpc = "paging"
    /\ ch[WalkerChain].st = "inflight"
    /\ LET got == FetchJson(Upstream(ch[WalkerChain].url))
           more == IF NoData(got) THEN all_issues
                   ELSE all_issues \o Filtered(got.v)
           again == Continue(got, more)
           released == [ch EXCEPT ![WalkerChain] = Idle]
           net == Started(released, sent, WalkerChain, PageUrl(NextPage(page)))
       IN  /\ all_issues' = more
           /\ calls' = Return(calls, ch, WalkerChain, got)
           /\ IF again
              THEN /\ page' = NextPage(page)
                   /\ ch' = net.ch
                   /\ sent' = net.sent
                   /\ UNCHANGED <<issues, hpc>>
              ELSE /\ issues' = Truncated(more)
                   /\ hpc' = "paged"
                   /\ ch' = released
                   /\ UNCHANGED <<page, sent>>
    /\ UNCHANGED <<upstreamVars, now, rateLeft, task, results, finished>>

(***************************************************************************)
(* fetch_closing_sha, fetch_commit_diff, fetch_comments                    *)
(***************************************************************************)
\* Python truth of a commit id: neither None nor the empty string
Truthy(x) == x # None /\ x # ""

RECURSIVE LastClosing(_)
\* a scan that does not return on the first match: the last match wins
LastClosing(evs) ==
    IF evs = <<>> THEN None
    ELSE LET later == LastClosing(Tail(evs))
         IN  IF Truthy(later) THEN later
             ELSE IF Head(evs).event = "closed" /\ Truthy(Head(evs).commit_id)
                  THEN Head(evs).commit_id
                  ELSE None

RECURSIVE FirstClosing(_)
\* lines 69-73: the scan of the events, returning on the first match
FirstClosing(evs) ==
    IF evs = <<>> THEN None
    ELSE IF Head(evs).event = "closed" /\ Truthy(Head(evs).commit_id)
         THEN Head(evs).commit_id
         ELSE FirstClosing(Tail(evs))

\* lines 64-73, on what fetch_json returned for the events URL
ClosingSha(events) ==
    IF ~IsList(events) THEN None ELSE FirstClosing(events.v)

\* a fetch_commit_diff that reads a key the commit does not have
DiffsWrongKey(data) == <<>>

\* lines 84-90, on what fetch_json returned for the commit URL
Diffs(data) ==
    LET files == IF data.hasFiles THEN data.files ELSE <<>>
    IN  [k \in 1..Len(files) |->
            [path |-> files[k].filename, diff |-> files[k].patch]]

\* fetch_commit_diff without the test of line 78
NeedsCommitAlways(sha) == TRUE

\* line 78: no request without a SHA
NeedsCommit(sha) == Truthy(sha)

\* lines 95-96, on what fetch_json returned for the comments URL
Comments(data) == IF IsList(data) THEN data.v ELSE <<>>

(***************************************************************************)
(* process_issue                                                           *)
(*   main  "sha"   awaiting closing_sha_task (line 112)                    *)
(*         "diff"  in fetch_commit_diff, awaiting the commit (line 113)    *)
(*         "join"  awaiting comments_task (line 114)                       *)
(*         "returned", "raised"                                            *)
(*         "norepo" raised at line 102, before any task or request         *)
(*   com   "run", "done": comments_task                                    *)
(***************************************************************************)
NoTask ==
    [main |-> "none", com |-> "none", closing_sha |-> None,
     diffs |-> <<>>, comments |-> <<>>]

Running == [NoTask EXCEPT !.main = "sha", !.com = "run"]

\* line 124: [l.get("name") for l in issue.get("labels", [])]
Labels(issue) ==
    LET ls == IF issue.labels.has THEN issue.labels.v ELSE <<>>
    IN  [k \in 1..Len(ls) |-> IF ls[k].hasName THEN ls[k].name ELSE None]

\* line 126: issue.get("assignee", {}).get("login") if issue.get("assignee")
\* else None
Assignee(issue) ==
    IF issue.assignee.kind = "obj" THEN issue.assignee.login ELSE None

\* lines 116-134: the record process_issue returns
Enriched(issue, comments, diffs) ==
    [issue_id |-> issue.number, author |-> "login",
     labels |-> Labels(issue), assignee |-> Assignee(issue),
     comments |-> comments, code_diff |-> diffs, repo |-> Repo(scrapLink)]

\* an enrichment that consumes its input: the keys it has read are popped
\* from the issue (issue.pop("labels"), issue.pop("assignee"))
IssueUpdated(issue, rec) ==
    [issue EXCEPT !.labels = NoLabels, !.assignee = NoAssignee]

\* lines 101-134: what process_issue leaves of the issue it was given; it
\* reads the issue (issue["number"], issue.get) and assigns to no key of it
IssueKept(issue, rec) == issue

\* line 125: issue.get("user", {}).get("login") raises on "user": null
Composes(issue) == issue.user # "null"

\* a placeholder without the repository
PlaceholderNoRepo(link) ==
    [issue_id |-> "no-data", title |-> "No issues fetched",
     comments |-> <<>>, code_diff |-> <<>>, repo |-> <<>>]

\* lines 152-159: the placeholder
Placeholder(link) ==
    [issue_id |-> "no-data", title |-> "No issues fetched",
     comments |-> <<>>, code_diff |-> <<>>, repo |-> Repo(link)]

Tasks == 1..Len(issues)

\* the k-th call of fetch_json the tasks make when they start: asyncio runs
\* the tasks in the order of their creation, closing_sha_task and
\* comments_task of issue 1, then those of issue 2, ...
FirstCall(k) ==
    LET i == (k + 1) \div 2
    IN  IF k % 2 = 1
        THEN [c |-> <<i, "main">>, url |-> EventsUrl(issues[i].number)]
        ELSE [c |-> <<i, "comments">>, url |-> CommentsUrl(issues[i].number)]

RECURSIVE StartAll(_, _)
\* lines 104-110 of every task: the calls from the k-th on, made in order
StartAll(k, net) ==
    IF k > 2 * Len(issues) THEN net
    ELSE StartAll(k + 1,
                  Started(net.ch, net.sent, FirstCall(k).c, FirstCall(k).url))

\* tasks created without the walker being awaited
PaginatedOrPaging == hpc \in {"paging", "paged"}

\* line 143: the await of fetch_closed_issues has returned the issues
Paginated == hpc = "paged"

\* lines 145-159 and, per issue, lines 101-112: the tasks are created and
\* each runs up to its first await, or raises at line 102 when the endpoint
\* has no "repos/" segment; with no issue, gather returns at once and the
\* placeholder is returned, or line 158 raises
Gather ==
    /\ Paginated
    /\ IF Len(issues) = 0
       THEN /\ IF HasRepo(scrapLink)
               THEN /\ hpc' = "returned"
                    /\ results' = <<Placeholder(scrapLink)>>
               ELSE /\ hpc' = "raised"
                    /\ UNCHANGED results
            /\ UNCHANGED <<task, ch, sent>>
       ELSE IF HasRepo(scrapLink)
       THEN /\ hpc' = "gather"
            /\ task' = [i \in DOMAIN task |->
                          IF i \in Tasks THEN Running ELSE task[i]]
            /\ LET net == StartAll(1, [ch |-> ch, sent |-> sent])
               IN  ch' = net.ch /\ sent' = net.sent
            /\ UNCHANGED results
       ELSE /\ hpc' = "raised"
            /\ task' = [i \in DOMAIN task |->
                          IF i \in Tasks
                          THEN [NoTask EXCEPT !.main = "norepo"]
                          ELSE task[i]]
            /\ UNCHANGED <<ch, sent, results>>
    /\ UNCHANGED <<upstreamVars, now, rateLeft, page, all_issues, issues,
                   calls, finished>>

\* lines 64-73, then 112-113 and 78-82: the events arrive, the SHA is
\* resolved and process_issue goes on to the commit or to the join
EventsResponse(i) ==
    /\ hpc = "gather"
    /\ i \in Tasks
    /\ task[i].main = "sha"
    /\ ch[<<i, "main">>].st = "inflight"
    /\ LET events == FetchJson(Upstream(ch[<<i, "main">>].url))
           sha == ClosingSha(events)
           released == [ch EXCEPT ![<<i, "main">>] = Idle]
           net == Started(released, sent, <<i, "main">>, CommitUrl(sha))
       IN  /\ calls' = Return(calls, ch, <<i, "main">>, events)
           /\ IF NeedsCommit(sha)
              THEN /\ task' = [task EXCEPT ![i].main = "diff",
                                           ![i].closing_sha = sha]
                   /\ ch' = net.ch
                   /\ sent' = net.sent
              ELSE /\ task' = [task EXCEPT ![i].main = "join",
                                           ![i].closing_sha = sha]
                   /\ ch' = released
                   /\ UNCHANGED sent
    /\ UNCHANGED <<upstreamVars, now, rateLeft, page, all_issues, issues,
                   hpc, results, finished>>

\* lines 82-90, then 114: the commit arrives
CommitResponse(i) ==
    /\ hpc = "gather"
    /\ i \in Tasks
    /\ task[i].main = "diff"
    /\ ch[<<i, "main">>].st = "inflight"
    /\ LET data == FetchJson(Upstream(ch[<<i, "main">>].url))
       IN  /\ task' = [task EXCEPT ![i].main = "join",
                                    ![i].diffs = Diffs(data)]
           /\ calls' = Return(calls, ch, <<i, "main">>, data)
    /\ ch' = [ch EXCEPT ![<<i, "main">>] = Idle]
    /\ UNCHANGED <<upstreamVars, now, rateLeft, page, all_issues, issues,
                   sent, hpc, results, finished>>

\* lines 95-96: the comments arrive, comments_task is done
CommentsResponse(i) ==
    /\ hpc = "gather"
    /\ i \in Tasks
    /\ task[i].com = "run"
    /\ ch[<<i, "comments">>].st = "inflight"
    /\ LET data == FetchJson(Upstream(ch[<<i, "comments">>].url))
       IN  /\ task' = [task EXCEPT ![i].com = "done",
                                    ![i].comments = Comments(data)]
           /\ calls' = Return(calls, ch, <<i, "comments">>, data)
    /\ ch' = [ch EXCEPT ![<<i, "comments">>] = Idle]
    /\ UNCHANGED <<upstreamVars, now, rateLeft, page, all_issues, issues,
                   sent, hpc, results, finished>>

\* process_issue without line 114: the comments are not awaited
JoinedDiffOnly(t) == t.main = "join"

\* both branches of process_issue are over
Joined(t) == t.main = "join" /\ t.com = "done"

\* lines 114-134: process_issue composes its record and returns, or raises;
\* gather (line 150, no return_exceptions) hands the first exception of a
\* task to scrapIssues, which has no handler
ProcessIssueReturn(i) ==
    /\ hpc = "gather"
    /\ i \in Tasks
    /\ Joined(task[i])
    /\ IF Composes(issues[i])
       THEN /\ task' = [task EXCEPT ![i].main = "returned"]
            /\ finished' = Append(finished, i)
            /\ issues' = [issues EXCEPT ![i] =
                              IssueKept(@, Enriched(@, task[i].comments,
                                                    task[i].diffs))]
            /\ UNCHANGED hpc
       ELSE /\ task' = [task EXCEPT ![i].main = "raised"]
            /\ hpc' = "raised"
            /\ UNCHANGED <<finished, issues>>
    /\ UNCHANGED <<upstreamVars, now, rateLeft, page, all_issues, ch, sent,
                   calls, results>>

\* line 150: gather is over when every task has returned
GatherDone == \A i \in Tasks : task[i].main = "returned"

\* tasks that write their comments and diffs to variables they share: a
\* task returns those of the task that completed last
ReturnedShared(i) ==
    Enriched(issues[i], task[finished[Len(finished)]].comments,
             task[finished[Len(finished)]].diffs)

\* what task i returned
Returned(i) == Enriched(issues[i], task[i].comments, task[i].diffs)

\* the results in the order the tasks completed (as_completed)
GatheredAsCompleted == [k \in 1..Len(finished) |-> Returned(finished[k])]

\* line 150: gather lists the results in the order of its arguments
Gathered == [i \in Tasks |-> Returned(i)]

\* lines 150-161: the results, in the order of the tasks
GatherReturn ==
    /\ hpc = "gather"
    /\ GatherDone
    /\ results' = Gathered
    /\ hpc' = "returned"
    /\ UNCHANGED <<upstreamVars, now, rateLeft, page, all_issues, issues, ch,
                   sent, calls, task, finished>>

(***************************************************************************)
(* Specifications                                                          *)
(***************************************************************************)
\* the listings of at most n pages with lengths of lens
Listings(n, lens) ==
    LET shapes == [ok : {TRUE}, len : lens, pat : Patterns]
                      \cup {[ok |-> FALSE, len |-> 0, pat |-> "issues"]}
    IN  UNION {[1..k -> shapes] : k \in 0..n}

\* the state scrapIssues is in when fetch_closed_issues has made its first
\* request (lines 139-45), the remote host having a budget of r rate limits
Start(r) ==
    /\ now = Epoch
    /\ rateLeft = r
    /\ calls = [c \in Chains |-> <<>>]
    /\ page = 1
    /\ all_issues = <<>>
    /\ issues = <<>>
    /\ LET net == Started([c \in Chains |-> Idle], [c \in Chains |-> <<>>],
                          WalkerChain, PageUrl(1))
       IN  ch = net.ch /\ sent = net.sent
    /\ task = [i \in 1..MaxIssues |-> NoTask]
    /\ hpc = "paging"
    /\ results = <<>>
    /\ finished = <<>>

\* a harvest of a listing of one short page
Init ==
    /\ scrapLink \in Links
    /\ resetAhead = 5
    /\ loopStart = Epoch - 40
    /\ pages \in Listings(1, 0..MaxIssues)
    /\ feeds \in [1..MaxIssues -> Profiles \cup {DefaultProfile}]
    /\ \A n \in 1..MaxIssues :
          feeds[n] = DefaultProfile
              <=> (\/ Len(pages) = 0
                   \/ n > pages[1].len
                   \/ IsPull(pages[1].pat, n))
    /\ Start(MaxRateLimits)

Fetching ==
    \/ \E c \in Chains :
          Request(c) \/ RateLimited(c) \/ Retry(c) \/ ResponseEof(c)
    \/ Tick

Enriching ==
    \E i \in 1..MaxIssues :
        \/ EventsResponse(i)
        \/ CommitResponse(i)
        \/ CommentsResponse(i)
        \/ ProcessIssueReturn(i)

Next == Fetching \/ PageResponse \/ Gather \/ Enriching \/ GatherReturn

Spec == Init /\ [][Next]_vars

\* fetch_closed_issues alone, on listings of full and short pages
WalkerInit ==
    /\ scrapLink \in {l \in Links : HasRepo(l)}
    /\ resetAhead = 5
    /\ loopStart = Epoch - 40
    /\ pages \in Listings(MaxPages, PageLens)
    /\ feeds = [n \in 1..MaxIssues |-> DefaultProfile]
    /\ Start(MaxWalkerRateLimits)

WalkerNext == Fetching \/ PageResponse

WalkerSpec == WalkerInit /\ [][WalkerNext]_vars

\* fetch_closed_issues alone, when the event loop keeps running the
\* coroutine and the remote host answers every request
WalkerLiveSpec == WalkerInit /\ [][WalkerNext]_vars /\ WF_vars(WalkerNext)

\* one call of fetch_json, that of the walker for page 1 of a listing of one
\* short page, with every clock and every reset time, the remote host
\* answering with up to MaxFetchRateLimits rate limits
FetchInit ==
    /\ scrapLink \in {l \in Links : HasRepo(l)}
    /\ resetAhead \in ResetAheads
    /\ loopStart \in LoopStarts
    /\ pages \in Listings(1, {0, 1, 30})
    /\ feeds = [n \in 1..MaxIssues |-> DefaultProfile]
    /\ Start(MaxFetchRateLimits)

FetchSpec == FetchInit /\ [][WalkerNext]_vars

\* the issues closed by the commit abc: their enrichment takes the three
\* requests (events, commit, comments)
ClosedByCommit ==
    {p \in Profiles :
        p.events.status = 200 /\ ClosingSha(p.events.body) = "abc"}

\* a harvest of MaxIssues such issues during which the remote host gives as
\* many rate-limit answers as the pool has connections.  Every request gets its
\* answer, every answer is received to its end, every sleep ends and the
\* event loop runs every coroutine that can go on: a step that can be taken
\* is taken at last.
LiveInit ==
    /\ scrapLink \in Links
    /\ resetAhead = 5
    /\ loopStart = Epoch - 40
    /\ pages = <<[ok |-> TRUE, len |-> MaxIssues, pat |-> "issues"]>>
    /\ feeds \in [1..MaxIssues -> ClosedByCommit]
    /\ Start(limit)

LiveSpec == LiveInit /\ [][Next]_vars /\ WF_vars(Next)

(***************************************************************************)
(* Properties                                                              *)
(***************************************************************************)
\* the tasks whose issue has a record that cannot be composed
Failing == {i \in Tasks : ~Composes(issues[i])}

\* what the remote host holds for issue number n, fetched without any
\* concurrency: the enrichment the harvest is expected to produce
ExpectedSha(n) == ClosingSha(FetchJson(feeds[n].events))
ExpectedDiffs(n) ==
    IF Truthy(ExpectedSha(n))
    THEN Diffs(FetchJson(CommitAnswer(ExpectedSha(n))))
    ELSE <<>>
ExpectedComments(n) == Comments(FetchJson(feeds[n].comments))
EnrichOf(issue) ==
    Enriched(issue, ExpectedComments(issue.number), ExpectedDiffs(issue.number))

\* C1: when the enrichment of exactly one of several issues fails, the
\* harvest does not end by raising: the failure stays with that issue and
\* the records of the other issues are still returned.
C1_FailureIsolated ==
    (HasRepo(scrapLink) /\ Len(issues) > 1 /\ Cardinality(Failing) = 1)
        => hpc # "raised"

\* C2: a harvest of a non-empty issue list returns only when every
\* enrichment task has completed, and whatever the order of completion the
\* result is as long as the issue list, its i-th element being the
\* enrichment of the i-th issue.
C2_ResultsInIssueOrder ==
    (hpc = "returned" /\ Len(issues) > 0) =>
        /\ \A i \in Tasks : task[i].main = "returned" /\ task[i].com = "done"
        /\ \A c \in Chains : ch[c].st = "idle"
        /\ Len(results) = Len(issues)
        /\ \A i \in Tasks : results[i] = EnrichOf(issues[i])

\* a harvest has returned two different records whose tasks completed in
\* the reverse of the issue order
C2_Witness ==
    /\ hpc = "returned"
    /\ Len(issues) = 2
    /\ finished = <<2, 1>>
    /\ results[1] # [results[2] EXCEPT !.issue_id = results[1].issue_id]

CommitRequests(c) == {k \in 1..Len(sent[c]) : sent[c][k][1] = "commit"}

\* C4: within one enrichment the commit is requested only after the events
\* lookup has completed and resolved the SHA; the comments task is started
\* together with that lookup, whatever the lookup and the diff fetch do; and
\* process_issue returns only when the diff branch and the comments branch
\* are both over.
C4_EnrichmentOrder ==
    \A i \in Tasks :
        /\ \A k \in CommitRequests(<<i, "main">>) :
              /\ k > 1
              /\ sent[<<i, "main">>][1] = EventsUrl(issues[i].number)
              /\ task[i].main \in {"diff", "join", "returned", "raised"}
              /\ Truthy(task[i].closing_sha)
        /\ CommitRequests(<<i, "comments">>) = {}
        /\ task[i].main \notin {"none", "norepo"} => task[i].com # "none"
        /\ task[i].main = "sha" => task[i].diffs = <<>>
        /\ task[i].main \in {"returned", "raised"} =>
              /\ task[i].com = "done"
              /\ ch[<<i, "main">>].st = "idle"
              /\ ch[<<i, "comments">>].st = "idle"

\* the comments request and the commit request of one issue are in flight
\* at the same time
C4_Witness ==
    \E i \in Tasks :
        /\ task[i].main = "diff"
        /\ ch[<<i, "main">>].st = "inflight"
        /\ ch[<<i, "comments">>].st = "inflight"
        /\ task[i].com = "run"

\* the events the remote host lists for issue number n (none when the
\* events request fails or its answer is no list)
FeedOf(n) ==
    IF feeds[n].events.status = 200 /\ IsList(feeds[n].events.body)
    THEN feeds[n].events.body.v ELSE <<>>

\* the positions of the "closed" events of issue n that carry a commit id
Closings(n) ==
    {k \in 1..Len(FeedOf(n)) :
        /\ FeedOf(n)[k].event = "closed"
        /\ FeedOf(n)[k].commit_id \notin {None, ""}}

\* the commit id of the first of them in feed order
FirstClosingId(n) ==
    FeedOf(n)[CHOOSE k \in Closings(n) : \A j \in Closings(n) : k <= j].commit_id

\* the commit of that id cannot be fetched, or changes no file
NoFiles(sha) ==
    \/ CommitAnswer(sha).status # 200
    \/ ~CommitAnswer(sha).body.hasFiles
    \/ CommitAnswer(sha).body.files = <<>>

\* C5 as stated: in every record a harvest returns, code_diff is empty
\* exactly when the issue's events feed has no "closed" event with a commit
\* id.
C5_EmptyExactlyWhenNoClosing ==
    (hpc = "returned" /\ Len(issues) > 0) =>
        \A i \in Tasks :
            results[i].code_diff = <<>> <=> Closings(issues[i].number) = {}

\* C5 as amended: code_diff is empty when the feed has no "closed" event
\* with a commit id, and otherwise exactly when the commit of the first such
\* event cannot be fetched or lists no file.
C5_EmptyDiff ==
    (hpc = "returned" /\ Len(issues) > 0) =>
        \A i \in Tasks :
            results[i].code_diff = <<>> <=>
                \/ Closings(issues[i].number) = {}
                \/ NoFiles(FirstClosingId(issues[i].number))

\* a returned record has an empty code_diff although its issue was closed
\* by a commit
C5_Witness ==
    /\ hpc = "returned"
    /\ \E i \in Tasks :
          /\ results[i].code_diff = <<>>
          /\ Closings(issues[i].number) # {}
          /\ Len(sent[<<i, "main">>]) >= 2

\* C6: for an issue whose events feed has no "closed" event with a commit
\* id (a feed that is no list included), no commit is ever requested and
\* the enrichment yields an empty code_diff.
C6_NoShaNoRequest ==
    \A i \in Tasks :
        Closings(issues[i].number) = {} =>
            /\ CommitRequests(<<i, "main">>) = {}
            /\ CommitRequests(<<i, "comments">>) = {}
            /\ task[i].main # "diff"
            /\ task[i].diffs = <<>>
            /\ hpc = "returned" => results[i].code_diff = <<>>

\* a harvest has returned the record of an issue that has "closed" events
\* but none with a commit id, after exactly one request of its main branch
C6_Witness ==
    /\ hpc = "returned"
    /\ \E i \in Tasks :
          /\ Closings(issues[i].number) = {}
          /\ \E k \in 1..Len(FeedOf(issues[i].number)) :
                FeedOf(issues[i].number)[k].event = "closed"
          /\ sent[<<i, "main">>] = <<EventsUrl(issues[i].number)>>
          /\ results[i].code_diff = <<>>

\* C7: the SHA fetch_closing_sha resolves is the commit id of the first
\* event in feed order that is "closed" and carries a commit id (None when
\* there is none), and every commit request of the issue is for that SHA.
C7_FirstClosingWins ==
    \A i \in Tasks :
        task[i].main \in {"diff", "join", "returned", "raised"} =>
            LET n == issues[i].number
            IN  /\ task[i].closing_sha =
                      IF Closings(n) = {} THEN None ELSE FirstClosingId(n)
                /\ \A k \in CommitRequests(<<i, "main">>) :
                      sent[<<i, "main">>][k] = CommitUrl(FirstClosingId(n))

\* the feed has two closing commits, abc before def, and the commit abc has
\* been requested
C7_Witness ==
    \E i \in Tasks :
        /\ Cardinality(Closings(issues[i].number)) = 2
        /\ task[i].closing_sha = "abc"
        /\ sent[<<i, "main">>] =
              <<EventsUrl(issues[i].number), CommitUrl("abc")>>


(***************************************************************************)
(* Properties of the walker                                                *)
(***************************************************************************)
\* the numbers of the pages requested so far
PagesRequested ==
    {sent[WalkerChain][k][2] : k \in 1..Len(sent[WalkerChain])}

\* the number of entries of page k of the listing that are no pull request
NonPulls(k) ==
    Cardinality({j \in 1..pages[k].len : ~IsPull(pages[k].pat, j)})

RECURSIVE Accumulated(_)
\* the number of issues on the pages 1..k of the listing
Accumulated(k) == IF k = 0 THEN 0 ELSE NonPulls(k) + Accumulated(k - 1)

\* the listing has full pages 1, 2 and 3 of 100 entries
ThreeFullPages ==
    /\ Len(pages) >= 3
    /\ \A k \in 1..3 : pages[k].ok /\ pages[k].len = PerPage

\* C8 as stated: with full pages 1, 2 and 3 the walker fetches 3 pages and
\* returns exactly 150 issues, 50 of page 3 being truncated.
C8_ThreePagesFetched ==
    (hpc = "paged" /\ ThreeFullPages) =>
        /\ PagesRequested = 1..3
        /\ Len(issues) = Target
        /\ Len(all_issues) = Target + 50

\* C8 as amended: with full pages 1, 2 and 3 the walker stops at the first
\* page with which the issues gathered reach 150.  Pages 1 and 2 suffice
\* when they hold 150 issues or more, and page 3 is then never requested:
\* with pages of 100 issues the walker fetches 2 pages and returns exactly
\* the issues 1..150, 50 of page 2 being truncated.  Page 3 is fetched only
\* when pages 1 and 2 hold fewer than 150 issues.
C8_StopsAtTarget ==
    (hpc = "paged" /\ ThreeFullPages) =>
        /\ {1, 2} \subseteq PagesRequested
        /\ Accumulated(2) >= Target =>
              /\ PagesRequested = 1..2
              /\ Len(issues) = Target
              /\ Len(all_issues) = Accumulated(2)
        /\ Accumulated(2) < Target => 3 \in PagesRequested
        /\ (\A k \in 1..3 : pages[k].pat = "issues") =>
              /\ PagesRequested = 1..2
              /\ Len(all_issues) = Target + 50
              /\ \A k \in 1..Target : issues[k].number = k

\* the walker has returned 150 issues from three full pages of issues
\* without having requested page 3
C8_Witness ==
    /\ hpc = "paged"
    /\ ThreeFullPages
    /\ \A k \in 1..3 : pages[k].pat = "issues"
    /\ sent[WalkerChain] = <<PageUrl(1), PageUrl(2)>>
    /\ Len(issues) = Target

\* C9: page k+1 is requested only if page k came back as a list of no
\* fewer than 100 raw entries and the issues gathered up to page k were
\* still fewer than the target; a walker that has returned requests nothing.
C9_NoRequestAfterLastPage ==
    /\ \A k \in PagesRequested :
          k > 1 =>
              /\ (k - 1) \in PagesRequested
              /\ k - 1 <= Len(pages)
              /\ pages[k - 1].ok
              /\ pages[k - 1].len > 0
              /\ ~(pages[k - 1].len < PerPage)
              /\ Accumulated(k - 1) < Target
    /\ hpc = "paged" =>
          /\ ch[WalkerChain].st = "idle"
          /\ \A k \in PagesRequested : k <= page

\* the walker has returned after a short page of 30 entries although the
\* remote host has a further full page
C9_Witness ==
    /\ hpc = "paged"
    /\ page < Len(pages)
    /\ pages[page].ok
    /\ pages[page].len = 30
    /\ pages[page + 1].ok
    /\ pages[page + 1].len = PerPage
    /\ Len(all_issues) < Target
    /\ PagesRequested = 1..page

\* every page of the listing but the last is full, and no page fails
Regular ==
    \A k \in 1..Len(pages) :
        /\ pages[k].ok
        /\ k < Len(pages) => pages[k].len = PerPage

\* the entry of number n of the listing is a pull request
PullAt(n) ==
    IsPull(pages[((n - 1) \div PerPage) + 1].pat, ((n - 1) % PerPage) + 1)

\* the numbers of the entries of a regular listing that are issues
IssueNumbers ==
    LET total == IF Len(pages) = 0 THEN 0
                 ELSE (Len(pages) - 1) * PerPage + pages[Len(pages)].len
    IN  {n \in 1..total : ~PullAt(n)}

\* C10: on a regular listing the walker returns the first min(150, n) of
\* the listing's n entries that are no pull request, in listing order: at
\* most 150 entries, none of them a pull request.
C10_FirstIssuesOfListing ==
    (hpc = "paged" /\ Regular) =>
        LET nums == IssueNumbers
            m == Len(issues)
        IN  /\ m = Min(Target, Cardinality(nums))
            /\ m <= Target
            /\ \A k \in 1..m :
                  /\ ~issues[k].pull_request
                  /\ issues[k].number \in nums
                  /\ k < m => issues[k].number < issues[k + 1].number
            /\ m > 0 =>
                  Cardinality({n \in nums : n <= issues[m].number}) = m

\* Scenario A: a page of 100 issues and a page of 30 issues give 130
C10_Witness ==
    /\ hpc = "paged"
    /\ Len(pages) = 2
    /\ Regular
    /\ pages[1].pat = "issues" /\ pages[2].pat = "issues"
    /\ pages[2].len = 30
    /\ Len(issues) = 130

(***************************************************************************)
(* Properties of the harvest's result and of fetch_json                    *)
(***************************************************************************)
\* C11: a harvest never returns an empty list; when the walker has found no
\* issue (the first page failed, was empty or listed pull requests only),
\* what it returns is a list of one record with issue_id "no-data", no
\* comments, no code_diff and the repository parsed from the endpoint.
C11_PlaceholderWhenNoIssues ==
    hpc = "returned" =>
        /\ Len(results) >= 1
        /\ Len(issues) = 0 =>
              /\ Len(results) = 1
              /\ results[1].issue_id = "no-data"
              /\ results[1].comments = <<>>
              /\ results[1].code_diff = <<>>
              /\ results[1].repo = <<"octo/app">>
              /\ \A c \in Chains : c # WalkerChain => sent[c] = <<>>

\* the harvest has returned the placeholder after its first page request
\* failed
C11_Witness ==
    /\ hpc = "returned"
    /\ Len(pages) = 1
    /\ ~pages[1].ok
    /\ Len(results) = 1
    /\ results[1].issue_id = "no-data"


\* n times the URL u
Repeat(u, n) == [k \in 1..n |-> u]

RECURSIVE RequestsOf(_)
\* the requests the calls cs took, call after call: each its URL, as many
\* times as it tried
RequestsOf(cs) ==
    IF cs = <<>> THEN <<>>
    ELSE Repeat(Head(cs).url, Head(cs).tries) \o RequestsOf(Tail(cs))

\* C12: a call of fetch_json issues one request, and one more for every
\* rate-limit answer (403 with X-RateLimit-Reset) it gets, all to the URL it
\* was called with; the further request is issued only when the sleep is
\* over, which is not before the reset time; and the call returns, after k
\* rate-limit answers and k+1 requests, what the remote host answers to that
\* URL when it does not limit, however large k is.
C12_RetryAfterRateLimit ==
    \A c \in Chains :
        /\ sent[c] = RequestsOf(calls[c]) \o Repeat(ch[c].url, ch[c].tries)
        /\ ch[c].st = "inflight" => ch[c].tries = ch[c].limits + 1
        /\ ch[c].st \in {"sleep", "wait"} => ch[c].tries = ch[c].limits
        /\ ch[c].st = "sleep" => ch[c].wake >= ch[c].reset
        /\ (ch[c].st \in {"wait", "inflight"} /\ ch[c].limits > 0) =>
              /\ now >= ch[c].wake
              /\ now >= ch[c].reset
        /\ \A k \in 1..Len(calls[c]) :
              /\ calls[c][k].tries = calls[c][k].limits + 1
              /\ calls[c][k].data =
                    IF Upstream(calls[c][k].url).status = 200
                    THEN Upstream(calls[c][k].url).body
                    ELSE EmptyObj

\* a call has returned the 30 entries of its page after as many rate-limit
\* answers as the remote host gives, each with a reset time 5 seconds ahead
C12_Witness ==
    /\ resetAhead = 5
    /\ Len(calls[WalkerChain]) = 1
    /\ calls[WalkerChain][1].limits = MaxFetchRateLimits
    /\ calls[WalkerChain][1].tries = MaxFetchRateLimits + 1
    /\ IsList(calls[WalkerChain][1].data)
    /\ Len(calls[WalkerChain][1].data.v) = 30
    /\ sent[WalkerChain] = Repeat(PageUrl(1), MaxFetchRateLimits + 1)


\* C13: after a rate-limit answer the call sleeps max(reset - now, 2)
\* seconds, now being the Unix time of the answer: never less than 2
\* seconds, and 5 seconds when the reset time is 5 seconds ahead.
C13_WaitFromResetTime ==
    \A c \in Chains :
        ch[c].st = "sleep" =>
            LET at == ch[c].reset - resetAhead
                stall == ch[c].wake - at
            IN  /\ stall = Max(ch[c].reset - at, 2)
                /\ stall >= 2
                /\ resetAhead = 5 => stall = 5


\* the calls of fetch_json that have returned, as <<chain, position>>
Calls == UNION {{<<c, k>> : k \in 1..Len(calls[c])} : c \in Chains}

\* C14: a call of fetch_json whose request is answered by an HTTP error
\* other than a rate limit (a 403 without X-RateLimit-Reset included) or
\* fails in transport returns the empty object, without a further request;
\* nothing is raised: the harvest raises only where process_issue or
\* scrapIssues do, and an issue whose every request fails still gets its
\* record, with no comments and no code_diff.
C14_ErrorsGiveEmptyObject ==
    /\ \A ck \in Calls :
          LET call == calls[ck[1]][ck[2]]
          IN  Upstream(call.url).status # 200 =>
                  /\ call.data = EmptyObj
                  /\ call.tries = call.limits + 1
                  /\ call.limits = 0 => call.tries = 1
    /\ hpc = "raised" => (~HasRepo(scrapLink) \/ Failing # {})
    /\ hpc = "returned" =>
          \A i \in Tasks :
              /\ feeds[issues[i].number].events.status # 200 =>
                    results[i].code_diff = <<>>
              /\ feeds[issues[i].number].comments.status # 200 =>
                    results[i].comments = <<>>

\* a harvest has returned the record of an issue whose events request was
\* answered 403 without the rate-limit header and whose comments request
\* failed in transport, each after one request
C14_Witness ==
    /\ hpc = "returned"
    /\ \E i \in Tasks :
          /\ feeds[issues[i].number].events.status = 403
          /\ feeds[issues[i].number].comments.status = 0
          /\ sent[<<i, "main">>] = <<EventsUrl(issues[i].number)>>
          /\ sent[<<i, "comments">>] = <<CommentsUrl(issues[i].number)>>
          /\ calls[<<i, "main">>][1].data = EmptyObj
          /\ results[i].comments = <<>>


\* the issues of a listing of one short page, read without any concurrency
ListedIssues ==
    IF Len(pages) = 0 \/ ~pages[1].ok THEN <<>>
    ELSE Truncated(Filtered(PageBody(1)))

\* what a harvest of that listing returns when nothing is raised
Harvested ==
    IF ListedIssues = <<>> THEN <<Placeholder(scrapLink)>>
    ELSE [i \in 1..Len(ListedIssues) |-> EnrichOf(ListedIssues[i])]

\* the harvest of that listing raises: the endpoint has no "repos/", or an
\* issue has no author
Raises ==
    \/ ~HasRepo(scrapLink)
    \/ \E i \in 1..Len(ListedIssues) : ~Composes(ListedIssues[i])

\* C15: what a harvest ends with is determined by the endpoint and by what
\* the remote host holds: whatever the interleaving of the tasks and of
\* their requests, and whichever requests were rate-limited, a harvest that
\* returns returns the same list, in the same order, and whether it returns
\* or raises is the same in every run.
C15_SameResultEveryRun ==
    /\ hpc = "returned" => (~Raises /\ results = Harvested)
    /\ hpc = "raised" => Raises

\* a harvest of two issues has returned after a rate limit and its sleep,
\* the second task having completed before the first
C15_Witness ==
    /\ hpc = "returned"
    /\ Len(results) = 2
    /\ finished = <<2, 1>>
    /\ rateLeft = 0
    /\ now > Epoch
    /\ results[1].comments # results[2].comments


\* C16: with an endpoint from which no repository can be parsed (no
\* "repos/" segment) the harvest never returns a list, and when it raises
\* it has issued no request at all, neither for a page nor for an
\* enrichment.
C16_BadEndpointFailsFast ==
    ~HasRepo(scrapLink) =>
        /\ hpc # "returned"
        /\ hpc = "raised" => \A c \in Chains : sent[c] = <<>>


\* the positions of the requests for page n among the walker's requests
RequestsForPage(n) ==
    {k \in 1..Len(sent[WalkerChain]) : sent[WalkerChain][k] = PageUrl(n)}

\* C17: the walker's requests are for the pages 1, 2, 3, ... in this order,
\* without a gap, a page being requested again only as the retry of a
\* rate-limited request for it; the request for page N+1 is issued only when
\* the call for page N has returned its answer; and never are two page
\* requests outstanding.
C17_PagesInSequence ==
    LET s == sent[WalkerChain]
        done == calls[WalkerChain]
    IN  /\ \A k \in 1..Len(s) : s[k][1] = "page"
        /\ Len(s) > 0 => s[1] = PageUrl(1)
        /\ \A k \in 1..(Len(s) - 1) :
              \/ s[k + 1] = PageUrl(s[k][2] + 1)
              \/ s[k + 1] = s[k]
        /\ \A k \in 1..Len(s) : s[k][2] <= Len(done) + 1
        /\ \A n \in 1..Len(done) :
              /\ done[n].url = PageUrl(n)
              /\ Cardinality(RequestsForPage(n)) = done[n].limits + 1
        /\ \A c \in Chains \ {WalkerChain} :
              \A k \in 1..Len(sent[c]) : sent[c][k][1] # "page"
        /\ Cardinality({c \in Chains : /\ ch[c].st = "inflight"
                                       /\ ch[c].url[1] = "page"}) <= 1
        /\ ch[WalkerChain].st = "inflight" =>
              /\ ch[WalkerChain].url = PageUrl(Len(done) + 1)
              /\ s[Len(s)] = ch[WalkerChain].url
              /\ ch[WalkerChain].held <= ch[WalkerChain].limits + 1

\* the walker has fetched three pages, the request for page 2 having been
\* rate-limited and repeated
C17_Witness ==
    /\ hpc = "paged"
    /\ Len(calls[WalkerChain]) = 3
    /\ sent[WalkerChain] = <<PageUrl(1), PageUrl(2), PageUrl(2), PageUrl(3)>>


\* the names of the labels of an issue that have one, in order
LabelsNamed(issue) ==
    LET named == SelectSeq(issue.labels.v, LAMBDA l : l.hasName)
    IN  [k \in 1..Len(named) |-> named[k].name]

\* C18: in every record a harvest returns, assignee is None when the raw
\* issue has no assignee or a null one (the assignee's login otherwise), and
\* labels lists exactly the names of the issue's labels that have a name, a
\* label without a name being skipped.
C18_AnomaliesDefaulted ==
    (hpc = "returned" /\ Len(issues) > 0) =>
        \A i \in Tasks :
            /\ results[i].assignee =
                  IF issues[i].assignee.kind = "obj"
                  THEN issues[i].assignee.login ELSE None
            /\ results[i].labels = LabelsNamed(issues[i])


\* C19: enrichment leaves its input as it was: from the moment the walker
\* has returned, whatever the tasks have done, the issue list scrapIssues
\* holds is the list the walker built, every raw issue in it being the entry
\* of the remote listing with the keys and values it came with; what a task
\* has gathered is that of its own issue; and the records returned are
\* records of their own, with the comments and the code_diff the raw issues
\* do not have.
C19_InputUnchanged ==
    hpc \in {"gather", "returned", "raised"} =>
        /\ issues = ListedIssues
        /\ issues = Truncated(all_issues)
        /\ \A i \in Tasks :
              /\ DOMAIN issues[i] =
                    {"number", "pull_request", "user", "labels", "assignee"}
              /\ task[i].comments \in
                    {<<>>, ExpectedComments(issues[i].number)}
              /\ task[i].diffs \in {<<>>, ExpectedDiffs(issues[i].number)}
        /\ (hpc = "returned" /\ Len(issues) > 0) =>
              \A i \in Tasks :
                  {"comments", "code_diff", "repo"} \subseteq DOMAIN results[i]

\* a harvest of two issues has returned a record with diffs, from an issue
\* with labels and a null assignee, and a record with comments
C19_Witness ==
    /\ hpc = "returned"
    /\ Len(issues) = 2
    /\ \E i \in Tasks :
          /\ results[i].code_diff # <<>>
          /\ issues[i].labels.v # <<>>
          /\ issues[i].assignee.kind = "null"
    /\ \E i \in Tasks : results[i].comments # <<>>


\* C20: when the remote host gives finitely many rate-limit answers and
\* every request gets its answer, the harvest comes to its end (it returns
\* its list, or raises where process_issue or scrapIssues raise): the
\* attempts that sleep or retry while they hold a connection never leave
\* the requests waiting for a connection for ever.
C20_HarvestEnds == <>(hpc \in {"returned", "raised"})

\* every connection of the pool is held by a rate-limited attempt that
\* sleeps, and a request waits for a connection
C20_Witness ==
    /\ InUse = limit
    /\ \A c \in Chains : ch[c].held > 0 => ch[c].st = "sleep"
    /\ \E c \in Chains : ch[c].st = "wait"


(***************************************************************************)
(* Termination of the walker, and the order of the two phases              *)
(***************************************************************************)
\* the number of entries of a regular listing
Entries ==
    IF Len(pages) = 0 THEN 0
    ELSE (Len(pages) - 1) * PerPage + pages[Len(pages)].len

\* ceil(a / b)
CeilDiv(a, b) == (a + b - 1) \div b

\* the walker never requests more than ceil(E/100) + 1 pages of a regular
\* listing of E entries
PageRequestsBounded ==
    Regular =>
        /\ Cardinality(PagesRequested) <= CeilDiv(Entries, PerPage) + 1
        /\ PagesRequested \subseteq 1..(CeilDiv(Entries, PerPage) + 1)

\* C21: on a listing of E entries, served in pages of 100, the walker
\* returns, and it has requested at most ceil(E/100) + 1 distinct pages
\* when it does, whatever the share of pull requests among the entries.
C21_WalkerTerminates ==
    /\ []PageRequestsBounded
    /\ <>(hpc = "paged")

\* the walker has returned no issue from a listing of three full pages of
\* pull requests only, having requested the pages 1 to 4
C21_Witness ==
    /\ hpc = "paged"
    /\ Regular
    /\ Len(pages) = 3
    /\ \A k \in 1..3 : pages[k].len = PerPage /\ pages[k].pat = "pulls"
    /\ Entries = 3 * PerPage
    /\ PagesRequested = 1..4
    /\ Len(all_issues) = 0
    /\ Len(issues) = 0


\* the calls of fetch_json of the enrichment: those of the tasks
EnrichmentChains == Chains \ {WalkerChain}

\* an events, comments or commit request has been issued
EnrichmentRequested == \E c \in EnrichmentChains : sent[c] # <<>>

\* the walker has received the answer to every page request it has issued,
\* and the last of them ended its loop
PaginationFinished ==
    LET done == calls[WalkerChain]
    IN  /\ hpc # "paging"
        /\ ch[WalkerChain].st = "idle"
        /\ ch[WalkerChain].held = 0
        /\ Len(done) > 0
        /\ Len(done) = Cardinality(PagesRequested)
        /\ \A n \in 1..Len(done) : done[n].url = PageUrl(n)
        /\ ~Continue(done[Len(done)].data, all_issues)

\* the harvest is in its second phase only when the walker has finished,
\* and the page requests are the walker's
PhasesInOrder ==
    /\ (hpc # "paging" \/ EnrichmentRequested) => PaginationFinished
    /\ \A k \in 1..Len(sent[WalkerChain]) : sent[WalkerChain][k][1] = "page"
    /\ \A c \in EnrichmentChains :
          \A k \in 1..Len(sent[c]) :
              sent[c][k][1] \in {"events", "comments", "commit"}

\* a step that issues an enrichment request is taken when the walker has
\* finished, and a step taken when an enrichment request has been issued
\* issues no page request
NoPageRequestAfterEnrichment ==
    /\ (\E c \in EnrichmentChains : sent'[c] # sent[c]) =>
          /\ hpc \in {"paged", "gather"}
          /\ ch[WalkerChain].st = "idle"
          /\ sent'[WalkerChain] = sent[WalkerChain]
          /\ calls'[WalkerChain] = calls[WalkerChain]
    /\ (EnrichmentRequested \/ hpc # "paging") =>
          /\ sent'[WalkerChain] = sent[WalkerChain]
          /\ ch'[WalkerChain] = ch[WalkerChain]

\* C22: no events, comments or commit request is issued before the walker
\* has received its last page response, and no page request is issued once
\* an enrichment request has been issued.
C22_EnrichmentAfterPagination ==
    /\ []PhasesInOrder
    /\ [][NoPageRequestAfterEnrichment]_vars

\* the page request was rate-limited and repeated, and the enrichment of
\* an issue has then issued its events, commit and comments requests
C22_Witness ==
    /\ hpc = "gather"
    /\ sent[WalkerChain] = <<PageUrl(1), PageUrl(1)>>
    /\ Len(issues) = MaxIssues
    /\ \E i \in Tasks :
          /\ Len(sent[<<i, "main">>]) = 2
          /\ sent[<<i, "main">>][2][1] = "commit"
          /\ Len(sent[<<i, "comments">>]) = 1


============================================================================
